---- MODULE Spec2Model ----
(***************************************************************************)
(* Barcam ProScan (src/Barcam-ProScan.py): the frame analysis and          *)
(* duplicate-suppression pipeline.                                         *)
(*                                                                         *)
(* Two execution contexts are modelled:                                    *)
(*   - the UI thread of BarcodeApp (start_camera, stop_camera,             *)
(*     cleanup_camera, open_settings, clear_table and the slot             *)
(*     on_frame_processed, which runs when a queued frame_processed        *)
(*     signal is delivered);                                               *)
(*   - one FrameProcessor thread per started session (FrameProcessor.run). *)
(* frame_processed crosses threads, so Qt queues it: `queue` is the UI     *)
(* thread's queue of undelivered frame_processed signals.                  *)
(*                                                                         *)
(* Time is the integer clock `now` (seconds, as time.time() and            *)
(* cache_timeout are); it never runs backwards.  A frame is the sequence   *)
(* of payloads pyzbar decodes from it.  The helpers the slot calls         *)
(* (save_snapshot, export_iso_report, preview_snapshot, show_frame) catch  *)
(* their own exceptions and touch no state modelled here.                  *)
(* The message box export_iso_report opens when an automatic export fails  *)
(* (line 946) is taken to be closed before the next signal is delivered:   *)
(* the slot is not re-entered.                                             *)
(***************************************************************************)
EXTENDS Integers, Sequences, FiniteSets, TLC

VARIABLES
    now,            \* the wall clock, time.time()
    nFrames,        \* frames the frame source has supplied so far
    cap,            \* BarcodeApp.cap: 0 is None, else a VideoCapture handle
    processor,      \* BarcodeApp.processor: 0 is None, else a FrameProcessor
    processing_fps, \* BarcodeApp.processing_fps
    cache_timeout,  \* BarcodeApp.cache_timeout
    barcode_cache,  \* BarcodeApp.barcode_cache: payload -> time of last report
    uiPc,           \* where the UI thread is
    current_time,   \* on_frame_processed's local current_time
    todo,           \* on_frame_processed: detections of barcodes_data not yet handled
    outcome,        \* result of the detection handled last: "NEW" or "SUPPRESSED"
    handled,        \* the detection handled last: its payload, and whether the cache held it
    evicted,        \* the payloads the latest cache clean-up removed (observer)
    waitLeft,       \* milliseconds left of the QThread.wait the UI thread is in
    handle,         \* state of each VideoCapture object
    proc,           \* the FrameProcessor objects and their threads
    queue,          \* frame_processed signals queued for the UI thread
    emitted,        \* signals emitted so far, per kind (observer)
    ui,             \* what the UI thread's last operation told the user / logged
    hist,           \* per payload: the two most recent reports (observer)
    alt,            \* the cache kept by two other designs, fed the same detections
    call,           \* one call of barcode_grade and ai_defect_check: arguments and results
    scan            \* the for loop of run() over one frame's detections, pixel by pixel

\* the frame source and the loop threads
loopVars == << nFrames, handle, proc, queue, emitted >>
\* BarcodeApp's camera fields and the state of start_camera / stop_camera
camVars == << cap, processor, waitLeft, ui >>
\* BarcodeApp's settings
setVars == << processing_fps, cache_timeout >>
\* the locals of on_frame_processed
slotVars == << current_time, todo, outcome, handled, evicted >>

\* the analysis of one region and of one frame
labVars == << call, scan >>

vars == << now, loopVars, camVars, setVars, slotVars, barcode_cache, uiPc, hist,
           alt, labVars >>

(***************************************************************************)
(* Program constants.                                                      *)
(***************************************************************************)
DEFAULT_FPS == 15
CACHE_TIMEOUT == 3
FPS_SPIN_MIN == 5
FPS_SPIN_MAX == 60
CACHE_SPIN_MIN == 1
CACHE_SPIN_MAX == 30
STOP_WAIT_MS == 2000
CLEANUP_WAIT_MS == 1000
POLL_SLEEP_MS == 50
BACKOFF_SLEEP_MS == 100
GRADE_A == 300
GRADE_B == 220
GRADE_C == 150
GRADE_D == 80
BLUR_BELOW == 50
LOW_CONTRAST_BELOW == 25
BROKEN_BELOW_PERCENT == 2   \* BROKEN_EDGE_RATIO 0.02
CHANNELS == 3
FRAME_TIMES_MAXLEN == 30
CANNY_HIGH == 150
INK_GREEN == 150    \* the grey value of (0, 255, 0), drawn when defect is "OK"
INK_RED == 76       \* the grey value of (0, 0, 255), drawn otherwise

(***************************************************************************)
(* Bounds of the model.                                                    *)
(***************************************************************************)
MaxTime == 3        \* the clock runs 0..MaxTime
MaxConfigFrames == 2 \* frames the source supplies in SpecConfig
MaxStream == 4      \* frames the source supplies in SpecE2E
MaxFrames == 1      \* frames the source supplies over a run
MaxWindow == 3      \* windows the settings dialog is given: 1..MaxWindow
MaxSessions == 1    \* FrameProcessor / VideoCapture objects alive at a time
MaxQueue == 1       \* undelivered frame_processed signals
MaxFaults == 1      \* exceptions raised inside loop iterations over a run
WaitQuantum == 1000 \* milliseconds of a wait that pass in one step
FrameWidth == 2     \* columns of the frames analysed region by region
FrameHeight == 2    \* rows of those frames
MaxBox == 2         \* widths and heights of bounding boxes: 0..MaxBox
MaxSamples == 32    \* frames of a run that measures throughput
StripLen == 4       \* columns of the one-row frames that are drawn on
MaxDetections == 2  \* detections in such a frame
MaxOrphans == 1     \* loops that may outlive their session, where sessions restart

Payloads == {"X", "Y"}
Frames == { << >>, <<"X">>, <<"Y">>, <<"X", "Y">>, <<"X", "X">> }
FpsChoices == {DEFAULT_FPS, FPS_SPIN_MAX}
Ids == 1..MaxSessions
Slots == 1..(MaxSessions + MaxOrphans)
Never == 0 - 1

Min(a, b) == IF a < b THEN a ELSE b
Max(a, b) == IF a > b THEN a ELSE b

(***************************************************************************)
(* The duplicate cache, as on_frame_processed uses it.                     *)
(***************************************************************************)
EmptyCache == [p \in {} |-> 0]
NoDetection == [code |-> "", present |-> FALSE]

\* IsDuplicate with the window's end inside it: <= for <
IsDuplicateInclusive(cache, code, t, window) ==
    /\ code \in DOMAIN cache
    /\ t - cache[code] <= window

\* line 772-773: the test that makes the loop `continue`
IsDuplicate(cache, code, t, window) ==
    /\ code \in DOMAIN cache
    /\ t - cache[code] < window

\* an insertion that keeps the time of an entry already there
CachePutKeepsFirst(cache, code, t) ==
    [p \in DOMAIN cache \cup {code} |->
        IF p \in DOMAIN cache THEN cache[p] ELSE t]

\* line 777: self.barcode_cache[code] = current_time
CachePut(cache, code, t) ==
    [p \in DOMAIN cache \cup {code} |-> IF p = code THEN t ELSE cache[p]]

\* CleanOld with the comparison inverted: keeps the stale entries
CleanOldInverted(cache, t, window) ==
    [p \in {q \in DOMAIN cache : t - cache[q] >= window} |-> cache[p]]

\* CleanOld keeping the entries that are exactly the window old
CleanOldInclusive(cache, t, window) ==
    [p \in {q \in DOMAIN cache : t - cache[q] <= window} |-> cache[p]]

\* lines 807-810: the dict comprehension that rebuilds the cache
CleanOld(cache, t, window) ==
    [p \in {q \in DOMAIN cache : t - cache[q] < window} |-> cache[p]]

(***************************************************************************)
(* Two other designs of the cache, run beside barcode_cache on the same    *)
(* detections: `inplace` observes and then removes the stale entries from  *)
(* the map it keeps; `before` removes the stale entries when the frame     *)
(* arrives and observes afterwards.  Each records the outcome of the       *)
(* detection it observed last.                                             *)
(***************************************************************************)
NoAlt == [inplace |-> EmptyCache, before |-> EmptyCache,
          outInplace |-> "NONE", outBefore |-> "NONE"]

AltStale(cache, t, window) == {k \in DOMAIN cache : t - cache[k] >= window}

\* remove every entry with t - timestamp >= window
AltSweep(cache, t, window) ==
    [k \in DOMAIN cache \ AltStale(cache, t, window) |-> cache[k]]

AltOutcome(cache, code, t, window) ==
    IF code \notin DOMAIN cache THEN "NEW"
    ELSE IF t - cache[code] < window THEN "SUPPRESSED"
    ELSE "NEW"

AltObserve(cache, code, t, window) ==
    IF AltOutcome(cache, code, t, window) = "SUPPRESSED"
    THEN cache
    ELSE [k \in DOMAIN cache \cup {code} |-> IF k = code THEN t ELSE cache[k]]

AltFrame(a, t, window) ==
    [a EXCEPT !.before = AltSweep(@, t, window),
              !.outInplace = "NONE", !.outBefore = "NONE"]

AltDetection(a, code, t, window) ==
    [inplace |-> AltObserve(a.inplace, code, t, window),
     before |-> AltObserve(a.before, code, t, window),
     outInplace |-> AltOutcome(a.inplace, code, t, window),
     outBefore |-> AltOutcome(a.before, code, t, window)]

AltFrameEnd(a, t, window) == [a EXCEPT !.inplace = AltSweep(@, t, window)]

(***************************************************************************)
(* Observer of reports (table row + statistics count).  For each payload:  *)
(* the time of its latest report and, once it has been reported twice,     *)
(* about its two latest reports: whether they are closer than the window   *)
(* configured at the later one (early), whether no clear_table came        *)
(* between them (quiet), and whether they are closer than the smallest     *)
(* window any frame was handled with from the earlier to the later         *)
(* (short).  runMin and runQuiet collect the last two since the latest     *)
(* report.                                                                 *)
(***************************************************************************)
NoHist == [last |-> Never, twice |-> FALSE, early |-> FALSE, quiet |-> FALSE,
           short |-> FALSE, runMin |-> 0, runQuiet |-> FALSE]

HistReport(h, t, window) ==
    IF h.last = Never
    THEN [h EXCEPT !.last = t, !.runMin = window, !.runQuiet = TRUE]
    ELSE [h EXCEPT !.last = t, !.twice = TRUE,
                   !.early = (t - h.last < window),
                   !.quiet = h.runQuiet,
                   !.short = (t - h.last < Min(h.runMin, window)),
                   !.runMin = window, !.runQuiet = TRUE]

HistFrame(h, window) ==
    IF h.last = Never THEN h ELSE [h EXCEPT !.runMin = Min(h.runMin, window)]

HistClear(h) ==
    IF h.last = Never THEN h ELSE [h EXCEPT !.runQuiet = FALSE]

(***************************************************************************)
(* The FrameProcessor objects.                                             *)
(***************************************************************************)
\* line 87 / 142: int(1000 / fps), for fps > 0
FrameDelay(fps) == 1000 \div fps

\* The value of an fps_updated signal, as the fraction num / den.
NoRate == [num |-> 0, den |-> 1]

\* frame_times is the deque of line 88, actual_fps the value of the latest
\* fps_updated signal
NoProc == [pc |-> "unborn", running |-> FALSE, fps |-> 0, frame_delay |-> 0,
           cap |-> 0, frame |-> << >>, slept |-> 0, errors |-> 0,
           killReq |-> FALSE, frame_times |-> << >>, actual_fps |-> NoRate]

\* sum(self.frame_times)
RECURSIVE SumSeq(_)
SumSeq(q) == IF q = << >> THEN 0 ELSE Head(q) + SumSeq(Tail(q))

\* a deque that grows without limit
AppendSampleUnbounded(q, d) == Append(q, d)

\* line 124: append to a deque(maxlen=30) drops from the left when it is full
AppendSample(q, d) ==
    IF Len(q) < FRAME_TIMES_MAXLEN THEN Append(q, d) ELSE Append(Tail(q), d)

\* lines 126-127: avg_time = sum / len; 1.0 / avg_time if avg_time > 0 else 0
ActualFps(q) ==
    IF SumSeq(q) > 0 THEN [num |-> Len(q), den |-> SumSeq(q)] ELSE NoRate

\* the durations an iteration may take (time.time() differences, line 123)
Durations == {0, 1, 2}
SteadyDurations == {1}

\* A VideoCapture object: not yet created, held by BarcodeApp.cap, or
\* released; `opened` is whether the device could be opened (isOpened()),
\* `result` what the start_camera call that created it told the user.
NoHandle == [state |-> "none", opened |-> FALSE, result |-> "none"]

\* What the latest call of start_camera or stop_camera did: the message of
\* start_camera; of stop_camera its state ("returned at once" when there
\* was no processor to wait for), whether its wait returned False,
\* whether the loop had left run() when the wait returned, and the
\* forced-termination warnings it logged.
NoUi == [start |-> "none", stop |-> "none", timedOut |-> FALSE,
         exited |-> FALSE, warnings |-> 0]

\* lines 82-88: FrameProcessor(cap, fps), then QThread.start (line 722)
NewProc(h, fps) ==
    [NoProc EXCEPT !.pc = "check", !.running = TRUE, !.fps = fps,
                   !.frame_delay = FrameDelay(fps), !.cap = h]

\* lines 137-138: FrameProcessor.stop
StopFlag(p) == [p EXCEPT !.running = FALSE]

\* the thread has left run(), or was terminated: QThread.wait returns True
Finished(t) == proc[t].pc \in {"done", "killed"}

\* the thread exists and has not finished
Live(t) == proc[t].pc \notin {"unborn", "done", "killed"}

\* Objects nothing refers to any more are gone: a FrameProcessor whose
\* thread has finished and a released VideoCapture, once BarcodeApp has
\* dropped them (P, H, p, c: the values of proc, handle, processor, cap).
Garbage(t, P, H, p, c) ==
    /\ p # t
    /\ c # t
    /\ P[t].pc \in {"unborn", "done", "killed"}
    /\ H[t].state = "released"

CollectProc(P, H, p, c) ==
    [t \in Slots |-> IF Garbage(t, P, H, p, c) THEN NoProc ELSE P[t]]

CollectHandle(P, H, p, c) ==
    [t \in Slots |-> IF Garbage(t, P, H, p, c) THEN NoHandle ELSE H[t]]

(***************************************************************************)
(* barcode_grade (lines 37-56) and ai_defect_check (lines 58-74), called   *)
(* on a frame of a.rows rows and a.cols columns.  What OpenCV             *)
(* measures on the region is an argument here: sharpness (the variance of  *)
(* the Laplacian), contrast (the standard deviation of the grey values)    *)
(* and edges (the number of pixels Canny marks, each worth 255 in          *)
(* edges.sum()), as integers.  A result is what the call returned, whether *)
(* it raised, and the numbers it divided by.  Scores are compared exactly, *)
(* as fractions; the rounding of Python's floats is not modelled.          *)
(***************************************************************************)
\* length of the slice a[lo:hi] of an axis of n elements (numpy: a negative
\* index counts from the end, indices are clipped to the axis)
SliceIndex(i, n) == IF i < 0 THEN Max(i + n, 0) ELSE Min(i, n)

SliceLen(n, lo, hi) == Max(SliceIndex(hi, n) - SliceIndex(lo, n), 0)

\* lines 40 / 61: roi = frame[y:y+h, x:x+w], its number of pixels
RoiPixels(a) ==
    SliceLen(a.rows, a.y, a.y + a.h) * SliceLen(a.cols, a.x, a.x + a.w)

\* roi.size
RoiSize(a) == RoiPixels(a) * CHANNELS

\* what a call hands back
Returned(v, divs) == [ret |-> v, raised |-> FALSE, divisors |-> divs]
Raised == [ret |-> "", raised |-> TRUE, divisors |-> {}]

\* lines 48 / 69: edges.sum() / (255 * w * h) if (w * h) > 0 else 0
Divisors(a) == IF a.w * a.h > 0 THEN {255 * a.w * a.h} ELSE {}

\* line 50, as the fraction ScoreNum / ScoreDen:
\* sharpness * 0.5 + contrast * 0.3 + modulation * 100 * 0.2
ScoreDen(a) == IF a.w * a.h > 0 THEN 10 * a.w * a.h ELSE 10

ScoreNum(a) ==
    IF a.w * a.h > 0
    THEN (5 * a.sharpness + 3 * a.contrast) * (a.w * a.h) + 200 * a.edges
    ELSE 5 * a.sharpness + 3 * a.contrast

\* a comparison that lets the threshold itself pass
ExceedsOrMeets(a, threshold) == ScoreNum(a) >= threshold * ScoreDen(a)

\* score > threshold
Exceeds(a, threshold) == ScoreNum(a) > threshold * ScoreDen(a)

\* lines 44-56: cv2.cvtColor raises on an empty region
GradeRegion(a) ==
    IF RoiSize(a) = 0 THEN Raised
    ELSE IF Exceeds(a, GRADE_A) THEN Returned("A", Divisors(a))
    ELSE IF Exceeds(a, GRADE_B) THEN Returned("B", Divisors(a))
    ELSE IF Exceeds(a, GRADE_C) THEN Returned("C", Divisors(a))
    ELSE IF Exceeds(a, GRADE_D) THEN Returned("D", Divisors(a))
    ELSE Returned("F", Divisors(a))

\* the function without its test of roi.size
barcode_grade_unguarded(a) == GradeRegion(a)

\* lines 37-56
barcode_grade(a) ==
    IF RoiSize(a) = 0 THEN Returned("F", {}) ELSE GradeRegion(a)

\* edge_ratio < 0.02
EdgeRatioLow(a) ==
    IF a.w * a.h > 0
    THEN 100 * a.edges < BROKEN_BELOW_PERCENT * (a.w * a.h)
    ELSE TRUE

\* the tests in another order: contrast before blur
DefectRegionContrastFirst(a) ==
    IF RoiSize(a) = 0 THEN Raised
    ELSE IF a.contrast < LOW_CONTRAST_BELOW THEN Returned("LOW CONTRAST", Divisors(a))
    ELSE IF a.sharpness < BLUR_BELOW THEN Returned("BLUR", Divisors(a))
    ELSE IF EdgeRatioLow(a) THEN Returned("BROKEN", Divisors(a))
    ELSE Returned("OK", Divisors(a))

\* lines 65-74
DefectRegion(a) ==
    IF RoiSize(a) = 0 THEN Raised
    ELSE IF a.sharpness < BLUR_BELOW THEN Returned("BLUR", Divisors(a))
    ELSE IF a.contrast < LOW_CONTRAST_BELOW THEN Returned("LOW CONTRAST", Divisors(a))
    ELSE IF EdgeRatioLow(a) THEN Returned("BROKEN", Divisors(a))
    ELSE Returned("OK", Divisors(a))

\* lines 58-74
ai_defect_check(a) ==
    IF RoiSize(a) = 0 THEN Returned("INVALID", {}) ELSE DefectRegion(a)

\* the arguments tried: boxes in and around the frame, measurements at and
\* next to every threshold
BoxXs == (0 - 1) .. FrameWidth
BoxYs == 0 .. FrameHeight
BoxSides == 0 .. MaxBox
Sharpnesses == {0, 49, 50, 160, 162, 300, 302, 400, 440, 442, 600, 602}
Contrasts == {0, 24, 25, 50}
NoMeasure == [sharpness |-> 0, contrast |-> 0, edges |-> 0]

Boxes == [x : BoxXs, y : BoxYs, w : BoxSides, h : BoxSides]

\* the boxes that lie in the frame from its corner
CornerBoxes == {b \in Boxes : b.x = 0 /\ b.y = 0 /\ b.w > 0 /\ b.h > 0}

Args(b, m) ==
    [cols |-> FrameWidth, rows |-> FrameHeight,
     x |-> b.x, y |-> b.y, w |-> b.w, h |-> b.h,
     sharpness |-> m.sharpness, contrast |-> m.contrast, edges |-> m.edges]

\* the measurements a box can have: none are taken of an empty region
Measures(b, sharpSet, contrastSet) ==
    LET n == RoiPixels(Args(b, NoMeasure))
    IN IF n = 0 THEN {NoMeasure}
       ELSE [sharpness : sharpSet, contrast : contrastSet,
             edges : {0, n \div 2, n}]

NoArgs == Args([x |-> 0, y |-> 0, w |-> 0, h |-> 0], NoMeasure)

\* call: the arguments and results of the latest call of the two functions
\* (lines 108-109)
NoCall == [done |-> FALSE, args |-> NoArgs,
           grade |-> Returned("", {}), defect |-> Returned("", {})]

AnalyseRegion(boxSet, sharpSet, contrastSet) ==
    /\ \E b \in boxSet : \E m \in Measures(b, sharpSet, contrastSet) :
          LET a == Args(b, m) IN
          call' = [done |-> TRUE, args |-> a,
                   grade |-> barcode_grade(a),
                   defect |-> ai_defect_check(a)]
    /\ UNCHANGED << now, loopVars, camVars, setVars, slotVars, barcode_cache, uiPc,
                    hist, alt, scan >>

(***************************************************************************)
(* The for loop of run (lines 104-118) on a frame of one row and StripLen  *)
(* columns, given by the grey values of its pixels (what cvtColor makes of *)
(* them).  On one row the measurements can be computed as OpenCV does:     *)
(* the Laplacian is the second difference along the row, with the border   *)
(* pixels mirrored; the variance and the standard deviation are rounded    *)
(* down to integers; a pixel counts as an edge when its Sobel gradient     *)
(* exceeds Canny's upper threshold.  Each detection is a box               *)
(* [x |-> column, w |-> width] of height 1 inside the frame.               *)
(***************************************************************************)
Columns == 0 .. (StripLen - 1)
Greys == {0, 255}
StripFrames == [Columns -> Greys]
StripBoxes == {b \in [x : Columns, w : 1..StripLen] : b.x + b.w <= StripLen}

Abs(i) == IF i < 0 THEN 0 - i ELSE i

\* the integer part of the square root
ISqrt(v) == CHOOSE k \in 0..255 : k * k <= v /\ v < (k + 1) * (k + 1)

\* frame[0:1, x:x+w] as grey values: the region's pixels 0 .. w - 1
Region(frame, b) == [i \in 0 .. (b.w - 1) |-> frame[b.x + i]]

\* the pixel beside i, the border mirrored (BORDER_REFLECT_101)
Beside(r, n, i) ==
    IF n = 1 THEN r[0]
    ELSE IF i < 0 THEN r[1]
    ELSE IF i > n - 1 THEN r[n - 2]
    ELSE r[i]

RECURSIVE SumTo(_, _)
SumTo(f, n) == IF n = 0 THEN 0 ELSE f[n - 1] + SumTo(f, n - 1)

\* the variance of f[0] .. f[n - 1], rounded down
Variance(f, n) ==
    LET sq == [i \in 0 .. (n - 1) |-> f[i] * f[i]]
    IN (n * SumTo(sq, n) - SumTo(f, n) * SumTo(f, n)) \div (n * n)

\* lines 45-47 on the region r of n pixels
MeasureRegion(r, n) ==
    LET lap == [i \in 0 .. (n - 1) |->
                   Beside(r, n, i - 1) - 2 * r[i] + Beside(r, n, i + 1)]
        sobel == [i \in 0 .. (n - 1) |->
                   4 * Abs(Beside(r, n, i + 1) - Beside(r, n, i - 1))]
    IN [sharpness |-> Variance(lap, n),
        contrast |-> ISqrt(Variance(r, n)),
        edges |-> Cardinality({i \in 0 .. (n - 1) : sobel[i] > CANNY_HIGH})]

\* the arguments of the two functions for box b of the frame
StripArgs(frame, b) ==
    LET m == MeasureRegion(Region(frame, b), b.w)
    IN [cols |-> StripLen, rows |-> 1, x |-> b.x, y |-> 0, w |-> b.w, h |-> 1,
        sharpness |-> m.sharpness, contrast |-> m.contrast, edges |-> m.edges]

\* lines 108-109
Analysis(frame, b) ==
    [rect |-> b,
     grade |-> barcode_grade(StripArgs(frame, b)).ret,
     defect |-> ai_defect_check(StripArgs(frame, b)).ret]

\* lines 113-114: cv2.rectangle(frame, (x, y), (x+w, y+h), color, 2) with
\* y = 0 colours at least the pixels of row 0 from column x to column
\* x + w; the text of lines 115-118, at (x, y - 8), lies above the frame
Draw(frame, b, defect) ==
    [c \in Columns |->
        IF b.x <= c /\ c <= b.x + b.w
        THEN (IF defect = "OK" THEN INK_GREEN ELSE INK_RED)
        ELSE frame[c]]

\* the sequences of at most n boxes: what decode may return
RECURSIVE Detections(_)
Detections(n) ==
    IF n = 0 THEN { << >> }
    ELSE Detections(n - 1) \cup
         {Append(q, b) : q \in {p \in Detections(n - 1) : Len(p) = n - 1},
                         b \in StripBoxes}

\* scan: where the iteration is, the frame as read (observer), the frame
\* buffer, the detections still to analyse and barcodes_data
NoScan == [pc |-> "idle", read |-> [c \in Columns |-> 0],
           frame |-> [c \in Columns |-> 0], todo |-> << >>, data |-> << >>]

\* lines 94 and 102: cap.read() and decode(frame)
ScanRead ==
    /\ scan.pc \in {"idle", "emitted"}
    /\ \E f \in StripFrames, q \in Detections(MaxDetections) :
          scan' = [pc |-> "for", read |-> f, frame |-> f, todo |-> q,
                   data |-> << >>]
    /\ UNCHANGED << now, loopVars, camVars, setVars, slotVars, barcode_cache,
                    uiPc, hist, alt, call >>

\* lines 105-118: one pass of the for loop
ScanDetection ==
    /\ scan.pc = "for"
    /\ scan.todo # << >>
    /\ LET b == Head(scan.todo)
           a == Analysis(scan.frame, b)
       IN scan' = [scan EXCEPT !.data = Append(@, a),
                               !.frame = Draw(@, b, a.defect),
                               !.todo = Tail(@)]
    /\ UNCHANGED << now, loopVars, camVars, setVars, slotVars, barcode_cache,
                    uiPc, hist, alt, call >>

\* line 120: the frame and barcodes_data are emitted, the iteration ends
ScanEmit ==
    /\ scan.pc = "for"
    /\ scan.todo = << >>
    /\ scan' = [NoScan EXCEPT !.pc = "emitted"]
    /\ UNCHANGED << now, loopVars, camVars, setVars, slotVars, barcode_cache,
                    uiPc, hist, alt, call >>

(***************************************************************************)
(* Initial state: BarcodeApp.__init__, with load_settings reading `fps`    *)
(* and `timeout` from the settings store.                                  *)
(***************************************************************************)
InitWith(fpsSet, timeoutSet) ==
    /\ now = 0
    /\ nFrames = 0
    /\ cap = 0
    /\ processor = 0
    /\ processing_fps \in fpsSet
    /\ cache_timeout \in timeoutSet
    /\ barcode_cache = EmptyCache
    /\ uiPc = "idle"
    /\ current_time = 0
    /\ todo = << >>
    /\ outcome = "NONE"
    /\ handled = NoDetection
    /\ evicted = {}
    /\ waitLeft = 0
    /\ handle = [h \in Slots |-> NoHandle]
    /\ proc = [t \in Slots |-> NoProc]
    /\ queue = << >>
    /\ emitted = [frame |-> 0, fps |-> 0, error |-> 0]
    /\ ui = NoUi
    /\ hist = [p \in Payloads |-> NoHist]
    /\ alt = NoAlt
    /\ call = NoCall
    /\ scan = NoScan

Init == InitWith({DEFAULT_FPS}, {CACHE_TIMEOUT})

\* load_settings (lines 1022-1023) takes whatever integers the settings
\* store holds under "fps" and "cache_timeout"; these are some it can hold
StoredRates == {0, FPS_SPIN_MIN - 1, DEFAULT_FPS, FPS_SPIN_MAX + 1}
StoredWindows == {0, CACHE_TIMEOUT, CACHE_SPIN_MAX + 1}

InitStored == InitWith(StoredRates, StoredWindows)

(***************************************************************************)
(* The clock.                                                              *)
(***************************************************************************)
Tick(limit) ==
    /\ now < limit
    /\ now' = now + 1
    /\ UNCHANGED << loopVars, camVars, setVars, slotVars, barcode_cache, uiPc, hist,
                    alt, labVars >>

(***************************************************************************)
(* on_frame_processed (lines 767-812), in three parts: the entry, which    *)
(* samples the clock; one pass of the for loop per detection; the cache    *)
(* clean-up and show_frame.  Nothing else runs on the UI thread between    *)
(* the parts.                                                              *)
(***************************************************************************)
\* line 768, entered with barcodes_data = dets
FrameSlotBegin(dets) ==
    /\ current_time' = now
    /\ todo' = dets
    /\ uiPc' = "frame_loop"
    /\ outcome' = "NONE"
    /\ handled' = NoDetection
    /\ evicted' = {}
    /\ hist' = [p \in Payloads |-> HistFrame(hist[p], cache_timeout)]
    /\ alt' = AltFrame(alt, now, cache_timeout)

\* lines 770-804, one detection
FrameSlotDetection ==
    /\ uiPc = "frame_loop"
    /\ todo # << >>
    /\ LET code == Head(todo) IN
        /\ todo' = Tail(todo)
        /\ handled' = [code |-> code, present |-> code \in DOMAIN barcode_cache]
        /\ alt' = AltDetection(alt, code, current_time, cache_timeout)
        /\ IF IsDuplicate(barcode_cache, code, current_time, cache_timeout)
           THEN /\ outcome' = "SUPPRESSED"
                /\ UNCHANGED << barcode_cache, hist >>
           ELSE /\ outcome' = "NEW"
                /\ barcode_cache' = CachePut(barcode_cache, code, current_time)
                /\ hist' = [hist EXCEPT
                              ![code] = HistReport(@, current_time, cache_timeout)]
    /\ UNCHANGED << labVars, now, loopVars, camVars, setVars, uiPc, current_time, evicted >>

\* lines 806-812
FrameSlotEnd ==
    /\ uiPc = "frame_loop"
    /\ todo = << >>
    /\ barcode_cache' = CleanOld(barcode_cache, current_time, cache_timeout)
    /\ evicted' = DOMAIN barcode_cache \ DOMAIN barcode_cache'
    /\ alt' = AltFrameEnd(alt, current_time, cache_timeout)
    /\ uiPc' = "idle"
    /\ current_time' = 0
    /\ UNCHANGED << labVars, now, loopVars, camVars, setVars, todo, outcome, handled, hist >>

\* the slot called directly with the detections of one frame
HandleFrame ==
    /\ uiPc = "idle"
    /\ \E dets \in Frames : FrameSlotBegin(dets)
    /\ UNCHANGED << labVars, now, loopVars, camVars, setVars, barcode_cache >>

(***************************************************************************)
(* clear_table (lines 851-861), answered Yes.                              *)
(***************************************************************************)
ClearTable ==
    /\ uiPc = "idle"
    /\ barcode_cache' = EmptyCache
    /\ hist' = [p \in Payloads |-> HistClear(hist[p])]
    /\ alt' = [alt EXCEPT !.inplace = EmptyCache, !.before = EmptyCache]
    /\ UNCHANGED << labVars, now, loopVars, camVars, setVars, slotVars, uiPc >>

(***************************************************************************)
(* FrameProcessor.set_fps (lines 140-142): two writes, which the loop      *)
(* thread can run between.                                                 *)
(***************************************************************************)
\* line 141: self.fps = fps
SetFpsWriteFps(t, fps) == [proc EXCEPT ![t].fps = fps]

\* set_fps without its second write
SetFpsWriteDelayForgotten(t) == proc

\* line 142: self.frame_delay = int(1000 / fps)
SetFpsWriteDelay(t) == [proc EXCEPT ![t].frame_delay = FrameDelay(proc[t].fps)]

(***************************************************************************)
(* open_settings (lines 1033-1057), the dialog accepted with the rate      *)
(* `fps` and the window `window` in its spin boxes (QSpinBox keeps them in *)
(* 5..60 and 1..30); fpsSet is what the user may enter as rate.            *)
(***************************************************************************)
Windows == CACHE_SPIN_MIN..Min(MaxWindow, CACHE_SPIN_MAX)

OpenSettings(fpsSet) ==
    /\ uiPc = "idle"
    /\ \E fps \in fpsSet \cap (FPS_SPIN_MIN..FPS_SPIN_MAX), window \in Windows :
        /\ cache_timeout' = window
        /\ processing_fps' = fps
        /\ IF fps # processing_fps /\ processor # 0
           THEN /\ proc' = SetFpsWriteFps(processor, fps)
                /\ uiPc' = "set_fps"
           ELSE UNCHANGED << proc, uiPc >>
    /\ UNCHANGED << labVars, alt, now, nFrames, handle, queue, emitted, camVars, slotVars,
                    barcode_cache, hist >>

\* set_fps returns, then save_settings and the status message
OpenSettingsEnd ==
    /\ uiPc = "set_fps"
    /\ proc' = SetFpsWriteDelay(processor)
    /\ uiPc' = "idle"
    /\ UNCHANGED << labVars, alt, now, nFrames, handle, queue, emitted, camVars, setVars, slotVars,
                    barcode_cache, hist >>

(***************************************************************************)
(* FrameProcessor.run (lines 91-135), thread t.  pc names the statement    *)
(* the thread executes next; statements that touch nothing another thread  *)
(* sees are taken together with the one before them:                       *)
(*   check    line 92, the while test                                      *)
(*   read     lines 94-99, cap.read() and, without a frame, msleep(50)     *)
(*   process  lines 101-128, decode, grade and classify every detection,   *)
(*            frame_processed.emit, the throughput estimate and            *)
(*            fps_updated.emit                                             *)
(*   throttle line 130, msleep(self.frame_delay)                           *)
(*   except   lines 132-135, the handler with its msleep(100)              *)
(*   done     run() has returned;  killed: the thread was terminated       *)
(* slept is the argument of the msleep of the current iteration, errors    *)
(* the number of error_occurred signals it emitted.                        *)
(***************************************************************************)
LoopFrame == << now, camVars, setVars, slotVars, barcode_cache, uiPc, hist,
               alt, labVars >>

\* line 92
LoopCheck(t) ==
    /\ proc[t].pc = "check"
    /\ LET P == [proc EXCEPT ![t].pc = IF proc[t].running THEN "read" ELSE "done",
                              ![t].errors = 0,
                              ![t].slept = 0]
       IN /\ proc' = CollectProc(P, handle, processor, cap)
          /\ handle' = CollectHandle(P, handle, processor, cap)
    /\ UNCHANGED << nFrames, queue, emitted, LoopFrame >>

\* lines 94-97: the source hands over a frame (only an opened, unreleased
\* handle does); frameSet is what it may show, limit how many frames in all
LoopReadFrame(t, frameSet, limit) ==
    /\ proc[t].pc = "read"
    /\ handle[proc[t].cap].state = "held"
    /\ handle[proc[t].cap].opened
    /\ nFrames < limit
    /\ \E f \in frameSet :
          proc' = [proc EXCEPT ![t].pc = "process", ![t].frame = f]
    /\ nFrames' = nFrames + 1
    /\ UNCHANGED << handle, queue, emitted, LoopFrame >>

\* a missing frame handled like a failure
LoopReadNoneAsError(t) ==
    /\ proc[t].pc = "read"
    /\ proc' = [proc EXCEPT ![t].pc = "check", ![t].slept = BACKOFF_SLEEP_MS,
                            ![t].errors = @ + 1]
    /\ emitted' = [emitted EXCEPT !.error = @ + 1]
    /\ UNCHANGED << nFrames, handle, queue, LoopFrame >>

\* lines 95-99: ret is False, msleep(50), continue
LoopReadNone(t) ==
    /\ proc[t].pc = "read"
    /\ proc' = [proc EXCEPT ![t].pc = "check", ![t].slept = POLL_SLEEP_MS]
    /\ UNCHANGED << nFrames, handle, queue, emitted, LoopFrame >>

\* the signal without the detections
EmitFrameBare(t) ==
    /\ Len(queue) < MaxQueue
    /\ queue' = Append(queue, [from |-> t, dets |-> << >>])

\* line 120: the signal, with every detection of the frame, is queued for
\* the UI thread
EmitFrame(t) ==
    /\ Len(queue) < MaxQueue
    /\ queue' = Append(queue, [from |-> t, dets |-> proc[t].frame])

\* lines 101-128; the iteration took one of the durations of durSet
LoopProcessIn(t, durSet) ==
    /\ proc[t].pc = "process"
    /\ EmitFrame(t)
    /\ emitted' = [emitted EXCEPT !.frame = @ + 1, !.fps = @ + 1]
    /\ \E d \in durSet :
          LET q == AppendSample(proc[t].frame_times, d)
          IN proc' = [proc EXCEPT ![t].pc = "throttle", ![t].frame = << >>,
                                  ![t].frame_times = q,
                                  ![t].actual_fps = ActualFps(q)]
    /\ UNCHANGED << nFrames, handle, LoopFrame >>

LoopProcess(t) == LoopProcessIn(t, SteadyDurations)

\* line 130: frame_delay is read when the sleep starts
LoopThrottle(t) ==
    /\ proc[t].pc = "throttle"
    /\ proc' = [proc EXCEPT ![t].pc = "check", ![t].slept = proc[t].frame_delay]
    /\ UNCHANGED << nFrames, handle, queue, emitted, LoopFrame >>

\* cap.read(), the decoder, the grading, the classification or the
\* emission raises: nothing was emitted
LoopFault(t) ==
    /\ proc[t].pc \in {"read", "process"}
    /\ emitted.error < MaxFaults
    /\ proc' = [proc EXCEPT ![t].pc = "except", ![t].frame = << >>]
    /\ UNCHANGED << nFrames, handle, queue, emitted, LoopFrame >>

\* the throughput computation (lines 123-128) raises: the frame was emitted
LoopFaultLate(t) ==
    /\ proc[t].pc = "process"
    /\ emitted.error < MaxFaults
    /\ EmitFrame(t)
    /\ emitted' = [emitted EXCEPT !.frame = @ + 1]
    /\ proc' = [proc EXCEPT ![t].pc = "except", ![t].frame = << >>]
    /\ UNCHANGED << nFrames, handle, LoopFrame >>

\* the except clause without the handler: the exception leaves run()
ExceptHandlerEscapes(p) ==
    [p EXCEPT !.pc = "done"]

\* lines 132-135: logged, error_occurred.emit, msleep(100); the while test
\* is next
ExceptHandler(p) ==
    [p EXCEPT !.pc = "check", !.errors = @ + 1, !.slept = BACKOFF_SLEEP_MS]

LoopExcept(t) ==
    /\ proc[t].pc = "except"
    /\ LET P == [proc EXCEPT ![t] = ExceptHandler(@)]
       IN /\ proc' = CollectProc(P, handle, processor, cap)
          /\ handle' = CollectHandle(P, handle, processor, cap)
          /\ emitted' = [emitted EXCEPT !.error = @ + P[t].errors - proc[t].errors]
    /\ UNCHANGED << nFrames, queue, LoopFrame >>

\* QThread.terminate takes effect: some time after the call, wherever the
\* thread is
LoopKilled(t) ==
    /\ proc[t].killReq
    /\ Live(t)
    /\ LET P == [proc EXCEPT ![t].pc = "killed"]
       IN /\ proc' = CollectProc(P, handle, processor, cap)
          /\ handle' = CollectHandle(P, handle, processor, cap)
    /\ UNCHANGED << nFrames, queue, emitted, LoopFrame >>

\* the thread's steps when nothing raises
LoopClean(t, frameSet, limit) ==
    \/ LoopCheck(t)
    \/ LoopReadFrame(t, frameSet, limit)
    \/ LoopReadNone(t)
    \/ LoopProcess(t)
    \/ LoopThrottle(t)

\* the thread's own steps
LoopRun(t, frameSet, limit) ==
    \/ LoopClean(t, frameSet, limit)
    \/ LoopExcept(t)
    \/ LoopFault(t)
    \/ LoopFaultLate(t)

Loop(t, frameSet, limit) ==
    \/ LoopRun(t, frameSet, limit)
    \/ LoopKilled(t)

(***************************************************************************)
(* start_camera (lines 700-732).  opened is whether cv2.VideoCapture(idx)   *)
(* could open the device: it raises nothing when it could not, the object  *)
(* it returns answers isOpened() with False and read() with (False, None). *)
(* fault is where the try block raises: "early" before self.processor is   *)
(* assigned (lines 711-718; FrameProcessor's constructor divides by the    *)
(* rate), "late" after processor.start() (lines 724-727), "none" nowhere;  *)
(* faults is where it may.                                                 *)
(* The session's handle and FrameProcessor share the index h.              *)
(***************************************************************************)
StartFaults == {"none", "early", "late"}

\* line 701: if self.cap
AlreadyRunningNever == FALSE

AlreadyRunning == cap # 0

\* lines 742-744 of stop_camera / 762-764 of cleanup_camera, on handles H
Released(H) ==
    [h \in Slots |-> IF h = cap THEN [H[h] EXCEPT !.state = "released"] ELSE H[h]]

StartCameraIn(ids, faults) ==
    /\ uiPc = "idle"
    /\ \/ /\ AlreadyRunning
          /\ ui' = [NoUi EXCEPT !.start = "already running"]
          /\ UNCHANGED << cap, processor, waitLeft, handle, proc, uiPc >>
       \/ /\ ~AlreadyRunning
          /\ ui' = [NoUi EXCEPT !.start = "no camera"]
          /\ UNCHANGED << cap, processor, waitLeft, handle, proc, uiPc >>
       \/ /\ ~AlreadyRunning
          /\ \E h \in ids, opened \in BOOLEAN, fault \in faults :
              /\ handle[h].state = "none" /\ proc[h].pc = "unborn"
              /\ \A g \in ids : g < h => ~(handle[g].state = "none" /\ proc[g].pc = "unborn")
              /\ processing_fps = 0 => fault = "early"
              /\ IF fault = "early"
                 THEN \* cleanup_camera finds no processor and releases the
                      \* handle, if there is one
                      /\ ui' = [NoUi EXCEPT !.start = "failed"]
                      /\ UNCHANGED << cap, processor, waitLeft, handle, proc, uiPc >>
                 ELSE /\ proc' = [proc EXCEPT ![h] =
                            IF fault = "late"
                            THEN StopFlag(NewProc(h, processing_fps))
                            ELSE NewProc(h, processing_fps)]
                      /\ cap' = h
                      /\ processor' = h
                      /\ IF fault = "late"
                         THEN \* cleanup_camera: stop(), wait(1000)
                              /\ handle' = [handle EXCEPT ![h] =
                                    [state |-> "held", opened |-> opened, result |-> "failed"]]
                              /\ ui' = [NoUi EXCEPT !.start = "failed"]
                              /\ uiPc' = "cleanup_wait"
                              /\ waitLeft' = CLEANUP_WAIT_MS
                         ELSE /\ handle' = [handle EXCEPT ![h] =
                                    [state |-> "held", opened |-> opened, result |-> "started"]]
                              /\ ui' = [NoUi EXCEPT !.start = "started"]
                              /\ UNCHANGED << uiPc, waitLeft >>
    /\ UNCHANGED << labVars, alt, now, nFrames, queue, emitted, setVars, slotVars, barcode_cache, hist >>

\* the objects of the session take one of the places Ids
StartCameraWith(faults) == StartCameraIn(Ids, faults)

StartCamera == StartCameraWith(StartFaults)

(***************************************************************************)
(* QThread.wait(ms) on the UI thread: time passes in quanta while the      *)
(* thread has not finished; the wait returns True once it has, False when  *)
(* the time is used up.  The UI thread handles no event while it waits.    *)
(***************************************************************************)
WaitTick ==
    /\ uiPc \in {"stop_wait", "cleanup_wait"}
    /\ waitLeft > 0
    /\ ~Finished(processor)
    /\ waitLeft' = Max(0, waitLeft - WaitQuantum)
    /\ UNCHANGED << labVars, alt, now, loopVars, cap, processor, ui, setVars, slotVars,
                    barcode_cache, uiPc, hist >>

\* a wait without a timeout
WaitTimedOutNever == FALSE

\* the wait is over and the thread has not finished: wait() returns False
WaitTimedOut == waitLeft = 0 /\ ~Finished(processor)

(***************************************************************************)
(* stop_camera (lines 734-754).                                            *)
(***************************************************************************)
\* lines 735-737: stop(), then the wait begins; without a processor the
\* call goes straight to lines 742-754
StopCameraBegin ==
    /\ uiPc = "idle"
    /\ IF processor # 0
       THEN /\ proc' = [proc EXCEPT ![processor] = StopFlag(@)]
            /\ uiPc' = "stop_wait"
            /\ waitLeft' = STOP_WAIT_MS
            /\ ui' = [NoUi EXCEPT !.stop = "waiting"]
            /\ UNCHANGED << cap, handle >>
       ELSE /\ cap' = 0
            /\ handle' = CollectHandle(proc, Released(handle), 0, 0)
            /\ proc' = CollectProc(proc, Released(handle), 0, 0)
            /\ ui' = [NoUi EXCEPT !.stop = "returned at once"]
            /\ UNCHANGED << uiPc, waitLeft >>
    /\ UNCHANGED << labVars, alt, now, nFrames, queue, emitted, processor, setVars, slotVars,
                    barcode_cache, hist >>

\* lines 737-754: the wait returns; terminate() and the warning when it
\* returned False; the handle is released
StopCameraEnd ==
    /\ uiPc = "stop_wait"
    /\ Finished(processor) \/ WaitTimedOut
    /\ LET P == IF WaitTimedOut
                THEN [proc EXCEPT ![processor].killReq = TRUE]
                ELSE proc
       IN /\ proc' = CollectProc(P, Released(handle), 0, 0)
          /\ handle' = CollectHandle(P, Released(handle), 0, 0)
    /\ ui' = [ui EXCEPT !.stop = "returned",
                        !.timedOut = WaitTimedOut,
                        !.exited = (proc[processor].pc = "done"),
                        !.warnings = IF WaitTimedOut THEN @ + 1 ELSE @]
    /\ processor' = 0
    /\ cap' = 0
    /\ uiPc' = "idle"
    /\ waitLeft' = 0
    /\ UNCHANGED << labVars, alt, now, nFrames, queue, emitted, setVars, slotVars,
                    barcode_cache, hist >>

(***************************************************************************)
(* cleanup_camera (lines 756-764), from the wait on: its result is not     *)
(* looked at.                                                              *)
(***************************************************************************)
CleanupCameraEnd ==
    /\ uiPc = "cleanup_wait"
    /\ Finished(processor) \/ waitLeft = 0
    /\ proc' = CollectProc(proc, Released(handle), 0, 0)
    /\ handle' = CollectHandle(proc, Released(handle), 0, 0)
    /\ processor' = 0
    /\ cap' = 0
    /\ uiPc' = "idle"
    /\ waitLeft' = 0
    /\ UNCHANGED << labVars, alt, now, nFrames, queue, emitted, ui, setVars, slotVars,
                    barcode_cache, hist >>

(***************************************************************************)
(* The UI thread's event loop delivers the oldest queued frame_processed   *)
(* signal to the slot.                                                     *)
(***************************************************************************)
Deliver ==
    /\ uiPc = "idle"
    /\ queue # << >>
    /\ FrameSlotBegin(Head(queue).dets)
    /\ queue' = Tail(queue)
    /\ UNCHANGED << labVars, now, nFrames, handle, proc, emitted, camVars, setVars,
                    barcode_cache >>

(***************************************************************************)
(* Spec: the application with its loop threads.                            *)
(***************************************************************************)
LifeFrames == { <<"X">> }

Next ==
    \/ StartCamera
    \/ StopCameraBegin
    \/ WaitTick
    \/ StopCameraEnd
    \/ CleanupCameraEnd
    \/ Deliver
    \/ FrameSlotDetection
    \/ FrameSlotEnd
    \/ \E t \in Ids : Loop(t, LifeFrames, MaxFrames)

Spec == Init /\ [][Next]_vars

(***************************************************************************)
(* SpecCache: the UI thread alone, the slot called with arbitrary frames   *)
(* at arbitrary times, between settings changes and table clears.          *)
(***************************************************************************)
NextCache ==
    \/ HandleFrame
    \/ FrameSlotDetection
    \/ FrameSlotEnd
    \/ ClearTable
    \/ OpenSettings({DEFAULT_FPS})
    \/ Tick(MaxTime)

SpecCache == Init /\ [][NextCache]_vars

(***************************************************************************)
(* C1.  Handling one detection is observe(payload, current_time): an       *)
(* absent payload is inserted with the handler's time and reported; a      *)
(* payload seen less than the window ago is not reported and the cache is  *)
(* left as it is; a payload seen at least the window ago is reported and   *)
(* its timestamp becomes the handler's time, the other entries staying.    *)
(***************************************************************************)
C1_ObserveStep ==
    [][ (uiPc = "frame_loop" /\ todo # << >> /\ todo' = Tail(todo)) =>
          LET code == Head(todo)
              others == DOMAIN barcode_cache \ {code}
              kept == /\ others \subseteq DOMAIN barcode_cache'
                      /\ DOMAIN barcode_cache' \subseteq others \cup {code}
                      /\ \A q \in others : barcode_cache'[q] = barcode_cache[q]
          IN
          /\ code \notin DOMAIN barcode_cache =>
                /\ outcome' = "NEW"
                /\ hist'[code].last = current_time
                /\ code \in DOMAIN barcode_cache'
                /\ barcode_cache'[code] = current_time
                /\ kept
          /\ (code \in DOMAIN barcode_cache
                /\ current_time - barcode_cache[code] < cache_timeout) =>
                /\ outcome' = "SUPPRESSED"
                /\ hist' = hist
                /\ barcode_cache' = barcode_cache
          /\ (code \in DOMAIN barcode_cache
                /\ current_time - barcode_cache[code] >= cache_timeout) =>
                /\ outcome' = "NEW"
                /\ hist'[code].last = current_time
                /\ code \in DOMAIN barcode_cache'
                /\ barcode_cache'[code] = current_time
                /\ kept
      ]_vars

\* a detection whose payload the cache held for at least the window was
\* reported again and re-stamped (the clean-up has not yet run)
C1_Witness ==
    /\ uiPc = "frame_loop"
    /\ outcome = "NEW"
    /\ handled.present
    /\ barcode_cache[handled.code] = current_time
    /\ hist[handled.code].twice
    /\ hist[handled.code].quiet

(***************************************************************************)
(* C2 as stated.  Any two reports of one payload are at least the window   *)
(* configured at the later report apart.                                   *)
(***************************************************************************)
C2_OncePerWindow ==
    \A p \in Payloads : hist[p].twice => ~hist[p].early

(***************************************************************************)
(* C2 amended.  Two successive reports of one payload with no confirmed    *)
(* clear_table between them are at least as far apart as the smallest      *)
(* window with which a frame was handled from the earlier report to the    *)
(* later.                                                                  *)
(***************************************************************************)
C2_OncePerSmallestWindow ==
    \A p \in Payloads : (hist[p].twice /\ hist[p].quiet) => ~hist[p].short

\* a payload reported twice with no clear between, closer than the window
\* now configured (so the window was changed in between)
C2_Witness ==
    \E p \in Payloads :
        /\ hist[p].twice
        /\ hist[p].quiet
        /\ hist[p].early
        /\ ~hist[p].short

(***************************************************************************)
(* C3.  The slot is left only through the clean-up, after the last         *)
(* detection of the frame; the clean-up keeps exactly the entries younger  *)
(* than the window at the handler's time, so entries that are all at least *)
(* the window old leave an empty cache, detections or none.                *)
(***************************************************************************)
C3_SweepEveryFrame ==
    [][ (uiPc = "frame_loop" /\ uiPc' # "frame_loop") =>
          LET fresh == {q \in DOMAIN barcode_cache :
                          current_time - barcode_cache[q] < cache_timeout}
          IN
          /\ todo = << >>
          /\ DOMAIN barcode_cache' = fresh
          /\ \A q \in fresh : barcode_cache'[q] = barcode_cache[q]
          /\ (\A q \in DOMAIN barcode_cache :
                 current_time - barcode_cache[q] >= cache_timeout)
               => barcode_cache' = EmptyCache
      ]_vars

\* a frame without detections whose clean-up removed every payload
C3_Witness ==
    /\ uiPc = "idle"
    /\ handled = NoDetection
    /\ evicted = Payloads
    /\ barcode_cache = EmptyCache

(***************************************************************************)
(* SpecConfig: a session whose settings are changed while it runs.         *)
(***************************************************************************)
NextConfig ==
    \/ StartCameraWith({"none"})
    \/ OpenSettings(FpsChoices)
    \/ OpenSettingsEnd
    \/ Deliver
    \/ FrameSlotDetection
    \/ FrameSlotEnd
    \/ Tick(MaxTime)
    \/ \E t \in Ids : LoopRun(t, LifeFrames, MaxConfigFrames)

SpecConfig == Init /\ [][NextConfig]_vars

(***************************************************************************)
(* SpecE2E: one session in which no iteration raises, from the source's    *)
(* frames to the reports.                                                  *)
(***************************************************************************)
StreamFrames == { << >>, <<"X">>, <<"Y">>, <<"X", "Y">> }

NextE2E ==
    \/ StartCameraWith({"none"})
    \/ Deliver
    \/ FrameSlotDetection
    \/ FrameSlotEnd
    \/ Tick(MaxTime)
    \/ \E t \in Ids : LoopClean(t, StreamFrames, MaxStream)

SpecE2E == Init /\ [][NextE2E]_vars

(***************************************************************************)
(* C4.  If the frame source cannot be opened, start_camera reports a       *)
(* failure and the loop never enters Running: a capture object whose       *)
(* device could not be opened is released, reported as failed, bound to no *)
(* started thread, and neither self.cap nor self.processor refers to it.   *)
(* The code does not satisfy this: cv2.VideoCapture raises nothing and     *)
(* start_camera never asks isOpened().                                     *)
(***************************************************************************)
C4_OpenFailureReported ==
    \A h \in Ids :
        (handle[h].state # "none" /\ ~handle[h].opened)
            => /\ handle[h].state = "released"
               /\ handle[h].result = "failed"
               /\ proc[h].pc = "unborn"
               /\ cap # h
               /\ processor # h

(***************************************************************************)
(* C5.  The capture handle is released only after the loop has fully       *)
(* stopped: in no state has a handle been released while the thread that   *)
(* reads from it can still execute cap.read(), that is, while it is about  *)
(* to read or will pass the while test again.  The code does not satisfy   *)
(* this: after a wait that returned False the handle is released at once.  *)
(***************************************************************************)
CanStillRead(t) ==
    /\ Live(t)
    /\ proc[t].pc = "read" \/ proc[t].running

C5_ReleaseAfterLoopStopped ==
    \A t \in Ids :
        (proc[t].pc # "unborn" /\ handle[proc[t].cap].state = "released")
            => ~CanStillRead(t)

(***************************************************************************)
(* C6.  stop_camera returns after at most the 2000 ms wait plus bounded    *)
(* work: while it waits, at most 2000 ms are left, no warning is logged    *)
(* yet, and either time can pass or the call can go on, whatever the loop  *)
(* thread does; when it has returned, it logged the forced-termination     *)
(* warning exactly once if the loop had not left run() when the wait was   *)
(* over, and not at all if it had.                                         *)
(***************************************************************************)
C6_StopBounded ==
    /\ uiPc = "stop_wait"
          => /\ processor # 0
             /\ waitLeft \in 0..STOP_WAIT_MS
             /\ ui.stop = "waiting"
             /\ ui.warnings = 0
             /\ ~proc[processor].running
             /\ (ENABLED WaitTick) \/ (ENABLED StopCameraEnd)
             /\ (waitLeft = 0 \/ Finished(processor)) => ENABLED StopCameraEnd
    /\ ui.stop = "returned"
          => /\ uiPc # "stop_wait"
             /\ ui.timedOut = ~ui.exited
             /\ ui.warnings = IF ui.exited THEN 0 ELSE 1
    /\ ui.stop = "returned at once" => ui.warnings = 0

C6_Witness ==
    /\ ui.stop = "returned"
    /\ ui.timedOut
    /\ ui.warnings = 1
    /\ \E t \in Ids : Live(t) /\ proc[t].killReq

(***************************************************************************)
(* C7.  The loop never terminates because of a per-frame fault.  A thread  *)
(* in the except clause goes on to the while test, having emitted exactly  *)
(* one error_occurred and slept 100 ms; a thread at the while test with    *)
(* the flag set starts another iteration; error_occurred is emitted by     *)
(* the except clause only; and a thread stops being live only at the       *)
(* while test with the flag cleared (or by being terminated).              *)
(***************************************************************************)
C7_FaultsAreSurvived ==
    [][/\ \A t \in Ids :
          /\ (proc[t].pc = "except" /\ proc'[t].pc # "except" /\ ~proc[t].killReq)
                => /\ proc'[t].pc = "check"
                   /\ proc'[t].running = proc[t].running
                   /\ proc'[t].errors = proc[t].errors + 1
                   /\ proc'[t].errors = 1
                   /\ proc'[t].slept = BACKOFF_SLEEP_MS
                   /\ emitted'.error = emitted.error + 1
          /\ (proc[t].pc = "check" /\ proc[t].running /\ proc'[t].pc # "check"
                /\ ~proc[t].killReq)
                => proc'[t].pc = "read"
          /\ (Live(t) /\ proc'[t].pc \in {"unborn", "done", "killed"})
                => \/ proc[t].pc = "check" /\ ~proc[t].running
                   \/ proc[t].killReq
          /\ (proc[t].pc # "except" /\ proc'[t] # proc[t])
                => proc'[t].errors <= proc[t].errors
       /\ emitted'.error # emitted.error
             => \E u \in Ids : proc[u].pc = "except" /\ proc'[u].pc = "check"
      ]_vars

C7_Witness ==
    \E t \in Ids :
        /\ proc[t].pc = "check"
        /\ proc[t].running
        /\ proc[t].errors = 1
        /\ proc[t].slept = BACKOFF_SLEEP_MS
        /\ emitted.error = 1

(***************************************************************************)
(* C8.  start_camera called while a session is running is a no-op that     *)
(* reports "already running": self.cap and self.processor, every capture   *)
(* object and every FrameProcessor stay as they are, so no second handle   *)
(* is opened and no second thread is started.                              *)
(***************************************************************************)
C8_StartWhileRunning ==
    [][(StartCamera /\ cap # 0)
          => /\ ui'.start = "already running"
             /\ UNCHANGED << cap, processor, handle, proc, uiPc, waitLeft >>
      ]_vars

C8_Witness ==
    /\ ui.start = "already running"
    /\ cap # 0
    /\ processor = cap
    /\ Live(processor)
    /\ proc[processor].running
    /\ handle[cap].state = "held"

(***************************************************************************)
(* C10.  Configuration changes take effect no later than the next          *)
(* iteration, without a restart.  Unless a set_fps call is between its two *)
(* writes, every throttle sleep the session's thread starts uses the delay *)
(* derived from the rate set last; every detection handled is suppressed   *)
(* exactly when its payload is cached less than the window set last ago,   *)
(* and the sweep keeps exactly the entries younger than that window; and a *)
(* step that changes a setting leaves the handle, the processor reference  *)
(* and every thread's position, flag and termination request as they are.  *)
(***************************************************************************)
ChangesSetting ==
    \/ cache_timeout' # cache_timeout
    \/ processing_fps' # processing_fps
    \/ uiPc = "set_fps" /\ uiPc' = "idle"

C10_ConfigTakesEffect ==
    [][/\ \A t \in Ids :
          (t = processor /\ uiPc # "set_fps"
             /\ proc[t].pc = "throttle" /\ proc'[t].pc = "check")
             => proc'[t].slept = 1000 \div processing_fps
       /\ (uiPc = "frame_loop" /\ todo' # todo)
             => (outcome' = "SUPPRESSED"
                   <=> /\ Head(todo) \in DOMAIN barcode_cache
                       /\ current_time - barcode_cache[Head(todo)] < cache_timeout)
       /\ (uiPc = "frame_loop" /\ uiPc' = "idle")
             => /\ DOMAIN barcode_cache' =
                      {k \in DOMAIN barcode_cache :
                          current_time - barcode_cache[k] < cache_timeout}
                /\ \A k \in DOMAIN barcode_cache' : barcode_cache'[k] = barcode_cache[k]
       /\ ChangesSetting
             => /\ UNCHANGED << cap, processor, handle, queue, emitted, nFrames >>
                /\ \A t \in Ids :
                      /\ proc'[t].pc = proc[t].pc
                      /\ proc'[t].running = proc[t].running
                      /\ proc'[t].killReq = proc[t].killReq
                      /\ proc'[t].cap = proc[t].cap
      ]_vars

C10_Witness ==
    /\ processor # 0
    /\ uiPc = "idle"
    /\ processing_fps = FPS_SPIN_MAX
    /\ cache_timeout # CACHE_TIMEOUT
    /\ proc[processor].pc = "check"
    /\ proc[processor].running
    /\ proc[processor].slept = 1000 \div FPS_SPIN_MAX
    /\ emitted.frame > 0

(***************************************************************************)
(* C9.  End to end, while every handling time lies inside one window and   *)
(* no iteration has raised: a payload is reported at most once, and a      *)
(* payload is cached exactly when it was reported, so that every payload   *)
(* handled was reported exactly once, by the first detection of it (a      *)
(* detection is NEW exactly when its payload was not cached); every frame  *)
(* read has produced exactly one frame_processed, but for the one a thread *)
(* is still processing, and as many fps_updated, so at least one; the      *)
(* signal carries every detection of its frame and the slot takes them     *)
(* all.                                                                    *)
(***************************************************************************)
InOneWindow == now < cache_timeout

NoFaultYet == emitted.error = 0 /\ \A t \in Ids : proc[t].pc # "except"

InProcess == {t \in Ids : proc[t].pc = "process"}

C9_Reports ==
    (InOneWindow /\ NoFaultYet)
        => /\ \A p \in Payloads :
                /\ ~hist[p].twice
                /\ p \in DOMAIN barcode_cache <=> hist[p].last # Never
           /\ handled.code # "" => hist[handled.code].last # Never
           /\ outcome = "NEW" => ~handled.present
           /\ outcome = "SUPPRESSED" => handled.present
           /\ emitted.frame = nFrames - Cardinality(InProcess)
           /\ emitted.fps = emitted.frame
           /\ emitted.frame >= 1 => emitted.fps >= 1

C9_Carries ==
    /\ \A t \in Ids :
          emitted'.frame # emitted.frame /\ proc[t].pc = "process" /\ proc'[t].pc # "process"
             => /\ emitted'.frame = emitted.frame + 1
                /\ queue' = Append(queue, [from |-> t, dets |-> proc[t].frame])
    /\ (uiPc = "idle" /\ uiPc' = "frame_loop")
          => /\ queue # << >>
             /\ todo' = Head(queue).dets
             /\ queue' = Tail(queue)
    /\ (uiPc = "frame_loop" /\ uiPc' = "idle") => todo = << >>

C9_EndToEnd == [](C9_Reports) /\ [][C9_Carries]_vars

C9_Witness ==
    /\ InOneWindow
    /\ NoFaultYet
    /\ emitted.frame = 3
    /\ now > 0
    /\ uiPc = "frame_loop"
    /\ handled = [code |-> "X", present |-> TRUE]
    /\ outcome = "SUPPRESSED"
    /\ hist["X"].last = 0
    /\ ~hist["Y"].twice /\ hist["Y"].last # Never

(***************************************************************************)
(* SpecStore: the application started on a settings store that holds any   *)
(* integers, then a session and the settings dialog.                       *)
(***************************************************************************)
NextStore ==
    \/ StartCameraWith({"none", "early"})
    \/ OpenSettings(FpsChoices)
    \/ OpenSettingsEnd
    \/ Deliver
    \/ FrameSlotDetection
    \/ FrameSlotEnd
    \/ \E t \in Ids : LoopRun(t, LifeFrames, MaxFrames)

SpecStore == InitStored /\ [][NextStore]_vars

(***************************************************************************)
(* C11.  In every state the configured rate is in 5..60 and the window in  *)
(* 1..30, and every FrameProcessor that exists has a rate in 5..60.  The   *)
(* code does not satisfy this: load_settings checks no bounds.             *)
(***************************************************************************)
C11_SettingsInRange ==
    /\ processing_fps \in FPS_SPIN_MIN..FPS_SPIN_MAX
    /\ cache_timeout \in CACHE_SPIN_MIN..CACHE_SPIN_MAX
    /\ \A t \in Ids :
          proc[t].pc # "unborn" => proc[t].fps \in FPS_SPIN_MIN..FPS_SPIN_MAX

(***************************************************************************)
(* SpecGrade: calls of barcode_grade and ai_defect_check.                  *)
(***************************************************************************)
NextGrade == AnalyseRegion(Boxes, {BLUR_BELOW, GRADE_A}, {LOW_CONTRAST_BELOW})

SpecGrade == Init /\ [][NextGrade]_vars

(***************************************************************************)
(* C12.  For a box of width 0 or height 0, wherever it lies, barcode_grade *)
(* returns "F" and ai_defect_check returns "INVALID", neither raises and   *)
(* neither divides by anything.                                            *)
(***************************************************************************)
C12_ZeroAreaBox ==
    (call.done /\ (call.args.w = 0 \/ call.args.h = 0))
        => /\ call.grade = Returned("F", {})
           /\ call.defect = Returned("INVALID", {})

C12_Witness ==
    /\ call.done
    /\ call.args.w = 0
    /\ call.args.h > 0
    /\ call.args.x < 0
    /\ call.grade.ret = "F"
    /\ call.defect.ret = "INVALID"

(***************************************************************************)
(* SpecScore: calls of the two functions on regions inside the frame, with *)
(* measurements at and next to every threshold.                            *)
(***************************************************************************)
NextScore == AnalyseRegion(CornerBoxes, Sharpnesses, Contrasts)

SpecScore == Init /\ [][NextScore]_vars

\* the grades from worst to best
Rank(g) == CASE g = "F" -> 0 [] g = "D" -> 1 [] g = "C" -> 2 [] g = "B" -> 3 [] g = "A" -> 4

\* ten times the area times 0.5 * sharpness + 0.3 * contrast + 20 * modulation,
\* where modulation is the share of edge pixels in the box
TenAreaScores(a) == (5 * a.sharpness + 3 * a.contrast) * (a.w * a.h) + 200 * a.edges

\* the score of the latest call lies above the threshold
Above(threshold) == TenAreaScores(call.args) > threshold * 10 * (call.args.w * call.args.h)

(***************************************************************************)
(* C13.  On a non-empty region the grade is A iff score > 300, B iff       *)
(* 220 < score <= 300, C iff 150 < score <= 220, D iff 80 < score <= 150   *)
(* and F iff score <= 80, with score = 0.5 * sharpness + 0.3 * contrast +  *)
(* 20 * modulation; sharpness 400, contrast 50 and modulation 0.5 give B;  *)
(* and of two calls the one with the higher score never gets the lower     *)
(* grade.                                                                  *)
(***************************************************************************)
C13_GradeBuckets ==
    /\ [](call.done =>
            /\ ~call.grade.raised
            /\ call.grade.ret = "A" <=> Above(GRADE_A)
            /\ call.grade.ret = "B" <=> (Above(GRADE_B) /\ ~Above(GRADE_A))
            /\ call.grade.ret = "C" <=> (Above(GRADE_C) /\ ~Above(GRADE_B))
            /\ call.grade.ret = "D" <=> (Above(GRADE_D) /\ ~Above(GRADE_C))
            /\ call.grade.ret = "F" <=> ~Above(GRADE_D)
            /\ (/\ call.args.sharpness = 400
                /\ call.args.contrast = 50
                /\ 2 * call.args.edges = call.args.w * call.args.h)
                   => call.grade.ret = "B")
    /\ [][(/\ call.done
           /\ call'.done
           /\ TenAreaScores(call.args) * (call'.args.w * call'.args.h)
                 <= TenAreaScores(call'.args) * (call.args.w * call.args.h))
              => Rank(call.grade.ret) <= Rank(call'.grade.ret)]_vars

C13_Witness ==
    /\ call.done
    /\ call.args.sharpness = 400
    /\ call.args.contrast = 50
    /\ 2 * call.args.edges = call.args.w * call.args.h
    /\ call.grade.ret = "B"

\* the labels ai_defect_check returns for OK, BLUR, LOW_CONTRAST, BROKEN, INVALID
DefectStatus == {"OK", "BLUR", "LOW CONTRAST", "BROKEN", "INVALID"}

(***************************************************************************)
(* C14.  On a non-empty region ai_defect_check returns BLUR when           *)
(* sharpness < 50, whatever the other measurements; otherwise              *)
(* LOW_CONTRAST when contrast < 25, whatever the edges; otherwise BROKEN   *)
(* when fewer than 0.02 of the box's pixels are edges; otherwise OK.  Its  *)
(* result is always one of the five status values.                         *)
(***************************************************************************)
C14_DefectPriority ==
    call.done =>
        /\ ~call.defect.raised
        /\ call.defect.ret \in DefectStatus
        /\ RoiSize(call.args) > 0 =>
             call.defect.ret =
                IF call.args.sharpness < 50 THEN "BLUR"
                ELSE IF call.args.contrast < 25 THEN "LOW CONTRAST"
                ELSE IF 50 * call.args.edges < call.args.w * call.args.h THEN "BROKEN"
                ELSE "OK"

C14_Witness ==
    /\ call.done
    /\ call.args.sharpness < 50
    /\ call.args.contrast < 25
    /\ call.args.edges = 0
    /\ call.defect.ret = "BLUR"

\* the source of t's loop can hand over a frame
CanYield(t) ==
    /\ handle[proc[t].cap].state = "held"
    /\ handle[proc[t].cap].opened

\* cap.read() has returned in t's loop, without a frame
ReadNothing(t) ==
    /\ proc[t].pc = "read"
    /\ proc'[t].pc \notin {"read", "process", "except", "killed", "unborn"}

(***************************************************************************)
(* C15.  When cap.read() returns without a frame, the iteration emits no   *)
(* error, frame or throughput notification, queues nothing for the UI      *)
(* thread, records no duration, leaves the duplicate cache alone, sleeps   *)
(* 50 ms and is back at the while test.  From the while test the loop      *)
(* reads again when the running flag is set and leaves run() when it is    *)
(* not, so a source that never yields a frame is polled for as long as the *)
(* flag is set, and no longer.                                             *)
(***************************************************************************)
C15_NoFrameIsNoError ==
    [][\A t \in Ids :
          /\ ReadNothing(t) =>
                /\ proc'[t] = [proc[t] EXCEPT !.pc = "check", !.slept = 50]
                /\ proc'[t].errors = 0
                /\ UNCHANGED << emitted, queue, barcode_cache, handle >>
          /\ (proc[t].pc = "check" /\ proc'[t].pc \notin {"check", "killed", "unborn"})
                => proc'[t].pc = IF proc[t].running THEN "read" ELSE "done"
          /\ (proc[t].pc = "read" /\ ~CanYield(t)) => proc'[t].pc # "process"]_vars

\* a loop whose source never yields a frame has polled, slept 50 ms and is
\* at the while test again
C15_Witness ==
    \E t \in Ids :
        /\ proc[t].pc = "check"
        /\ proc[t].running
        /\ proc[t].slept = 50
        /\ ~handle[proc[t].cap].opened
        /\ emitted = [frame |-> 0, fps |-> 0, error |-> 0]

(***************************************************************************)
(* C17.  Whenever a loop is about to read its configuration (it is at the  *)
(* msleep of line 130, which reads frame_delay), frame_delay is            *)
(* int(1000 / fps) for the current fps.                                    *)
(***************************************************************************)
C17_ConfigReadWhole ==
    \A t \in Ids :
        proc[t].pc = "throttle" => proc[t].frame_delay = FrameDelay(proc[t].fps)

(***************************************************************************)
(* SpecScan: iterations of the loop on one-row frames, detection by        *)
(* detection.                                                              *)
(***************************************************************************)
NextScan ==
    \/ ScanRead
    \/ ScanDetection
    \/ ScanEmit

SpecScan == Init /\ [][NextScan]_vars

(***************************************************************************)
(* C18.  Every entry of barcodes_data holds the grade and the defect       *)
(* status that barcode_grade and ai_defect_check compute for its box on    *)
(* the frame as it was read.                                               *)
(***************************************************************************)
C18_AnalysedAsRead ==
    \A i \in 1..Len(scan.data) :
        scan.data[i] = Analysis(scan.read, scan.data[i].rect)

(***************************************************************************)
(* SpecSweep: the slot called with arbitrary frames at times that never    *)
(* decrease, under a window that stays what it was at the start.           *)
(***************************************************************************)
InitSweep == InitWith({DEFAULT_FPS}, Windows)

NextSweep ==
    \/ HandleFrame
    \/ FrameSlotDetection
    \/ FrameSlotEnd
    \/ Tick(MaxTime)

SpecSweep == InitSweep /\ [][NextSweep]_vars

(***************************************************************************)
(* C19.  Under a fixed window, a cache swept in place after the frame's    *)
(* observations (alt.inplace) and a cache swept before them (alt.before)   *)
(* give every detection the outcome on_frame_processed gives it, and both  *)
(* hold exactly barcode_cache whenever a frame has been handled.           *)
(***************************************************************************)
C19_SweepDesignsAgree ==
    /\ alt.outInplace = outcome
    /\ alt.outBefore = outcome
    /\ uiPc = "idle" =>
          /\ alt.inplace = barcode_cache
          /\ alt.before = barcode_cache

\* a frame has been handled that suppressed one detection and evicted
\* another payload's entry
C19_Witness ==
    /\ uiPc = "idle"
    /\ outcome = "SUPPRESSED"
    /\ evicted # {}
    /\ barcode_cache # EmptyCache
    /\ alt.before = barcode_cache

(***************************************************************************)
(* SpecRestart: the application with its loop threads, with room for the   *)
(* objects of a new session beside those of sessions whose loop has not    *)
(* finished.                                                               *)
(***************************************************************************)
NextRestart ==
    \/ StartCameraIn(Slots, StartFaults)
    \/ StopCameraBegin
    \/ WaitTick
    \/ StopCameraEnd
    \/ CleanupCameraEnd
    \/ Deliver
    \/ FrameSlotDetection
    \/ FrameSlotEnd
    \/ \E t \in Slots : Loop(t, LifeFrames, MaxFrames)

SpecRestart == Init /\ [][NextRestart]_vars

(***************************************************************************)
(* C20.  At no time are there two FrameProcessor loops that have not       *)
(* finished, nor two capture handles that are open and unreleased.         *)
(***************************************************************************)
C20_OneLoopOneHandle ==
    /\ Cardinality({t \in Slots : Live(t)}) <= 1
    /\ Cardinality({h \in Slots : handle[h].state = "held"}) <= 1

(***************************************************************************)
(* SpecThroughput: one session whose source shows frames without barcodes, *)
(* more of them than frame_times holds.  To keep the run finite the        *)
(* iterations never get faster: each takes at least as long as the one     *)
(* before.                                                                 *)
(***************************************************************************)
BlankFrames == { << >> }

LaterDurations(t) ==
    {d \in Durations :
        \A i \in 1..Len(proc[t].frame_times) : proc[t].frame_times[i] <= d}

NextThroughput ==
    \/ StartCameraWith({"none"})
    \/ Deliver
    \/ FrameSlotEnd
    \/ \E t \in Ids :
          \/ LoopCheck(t)
          \/ LoopReadFrame(t, BlankFrames, MaxSamples)
          \/ LoopReadNone(t)
          \/ LoopProcessIn(t, LaterDurations(t))
          \/ LoopThrottle(t)

SpecThroughput == Init /\ [][NextThroughput]_vars

\* the loop of t has just processed a frame
Processed(t) == proc[t].pc = "process" /\ proc'[t].pc = "throttle"

\* the samples of q from the i-th on
Recent(q, i) == SubSeq(q, i, Len(q))

(***************************************************************************)
(* C16.  frame_times never holds more than 30 samples.  Processing a frame *)
(* adds its duration at the end and, when 30 were held, drops the oldest;  *)
(* it emits exactly one throughput notification and one frame              *)
(* notification, and no other step of the loop emits a throughput          *)
(* notification or changes the window.  The value notified is the number   *)
(* of samples over their sum when the sum is positive and 0 otherwise: it  *)
(* is never negative, and when every sample equals L > 0 it is 1 / L.      *)
(***************************************************************************)
C16_Throughput ==
    /\ [](\A t \in Ids : Len(proc[t].frame_times) <= 30)
    /\ [][\A t \in Ids :
            IF Processed(t)
            THEN LET old == proc[t].frame_times
                     new == proc'[t].frame_times
                     rate == proc'[t].actual_fps
                 IN /\ new # << >>
                    /\ Recent(new, 1) = new
                    /\ SubSeq(new, 1, Len(new) - 1)
                          = IF Len(old) < 30 THEN old ELSE Recent(old, 2)
                    /\ emitted'.fps = emitted.fps + 1
                    /\ emitted'.frame = emitted.frame + 1
                    /\ rate.den > 0
                    /\ rate.num >= 0
                    /\ IF SumSeq(new) > 0
                       THEN rate.num * SumSeq(new) = rate.den * Len(new)
                       ELSE rate.num = 0
                    /\ \A L \in Durations \ {0} :
                          (\A i \in 1..Len(new) : new[i] = L) => rate.num * L = rate.den
            ELSE (Live(t) /\ proc'[t].pc # "unborn")
                    => /\ proc'[t].frame_times = proc[t].frame_times
                       /\ proc'[t].actual_fps = proc[t].actual_fps
                       /\ (\A u \in Ids : ~Processed(u)) => emitted'.fps = emitted.fps]_vars

\* the window is full, its oldest samples were dropped, and the value
\* notified is neither 0 nor 1
C16_Witness ==
    \E t \in Ids :
        /\ Len(proc[t].frame_times) = 30
        /\ emitted.fps > 30
        /\ proc[t].frame_times[1] = 1
        /\ proc[t].frame_times[30] = 2
        /\ proc[t].actual_fps.num < proc[t].actual_fps.den

(***************************************************************************)
(* C21.  From the return of stop_camera to the next call of start_camera   *)
(* the slot on_frame_processed handles no frame: it is not in its for loop *)
(* or at its sweep, so it reports nothing, writes no cache entry and       *)
(* displays no frame.                                                      *)
(***************************************************************************)
C21_StoppedSessionIsSilent ==
    (ui.stop = "returned" /\ cap = 0 /\ processor = 0) => uiPc # "frame_loop"

====
